---- MODULE Spec2Model ----
(***************************************************************************)
(* A model of habrss (src/habrss.py): the feed parser and serializer, the  *)
(* guid deduplicator, the exclude/include rule evaluator, the passed /     *)
(* blocked statistics ledger and the aiohttp request handlers around them. *)
(*                                                                         *)
(* Python strings are modelled as sequences of one-character strings, so   *)
(* that regular-expression matching, the `?utm` cut and the ordering of    *)
(* strings are computed and not assumed.  Python's None is the value None  *)
(* below, which is no string of the alphabet.                              *)
(***************************************************************************)
EXTENDS Integers, Sequences, FiniteSets, TLC

VARIABLES
    stats,        \* Handler._stats: the shared FilterStatistics ledger
    last,         \* history: title -> the latest add call for it
    feed_config,  \* the FeedConfig of the pipeline run under study
    contents,     \* the fetched documents of that run, in configured order
    run,          \* the outcome of that run (None before it ran)
    entries,      \* the entries handed to dump_feed
    parsed,       \* what parse_feed made of dump_feed(entries)
    handlers,     \* per in-flight request: the position of handle_feed
    observed      \* what the latest handle_stats rendered

vars == <<stats, last, feed_config, contents, run, entries, parsed, handlers, observed>>

None == <<"None">>

\* ------------------------------------------------------------------ bounds

\* Elements (items) in all the documents of one pipeline run.
MaxElts == 3
\* Entries in one serialize-then-parse round trip.
MaxEntries == 2

\* ----------------------------------------------------------------- strings

\* Code points of the characters used, as Python's str comparison orders them.
Ord(c) ==
    CASE c = "=" -> 61
      [] c = "?" -> 63
      [] c = "I" -> 73
      [] c = "N" -> 78
      [] c = "a" -> 97
      [] c = "b" -> 98
      [] c = "g" -> 103
      [] c = "h" -> 104
      [] c = "i" -> 105
      [] c = "m" -> 109
      [] c = "n" -> 110
      [] c = "s" -> 115
      [] c = "t" -> 116
      [] c = "u" -> 117
      [] c = "x" -> 120
      [] OTHER -> 0

\* str.lower() of one character (re.IGNORECASE folds case the same way).
Lower(c) ==
    CASE c = "I" -> "i"
      [] c = "N" -> "n"
      [] OTHER -> c

\* Python's s < t on strings: lexicographic on code points.
RECURSIVE StrLess(_, _)
StrLess(s, t) ==
    IF t = <<>> THEN FALSE
    ELSE IF s = <<>> THEN TRUE
    ELSE IF Head(s) = Head(t) THEN StrLess(Tail(s), Tail(t))
    ELSE Ord(Head(s)) < Ord(Head(t))

\* Whether s starts with p.
IsPrefix(p, s) == Len(p) <= Len(s) /\ SubSeq(s, 1, Len(p)) = p

\* ------------------------------------------------------ regular expressions

\* The regular expressions of the configurations modelled: a sequence of
\* atoms, each a literal character or Star, the two-character regex `.*`.
Star == ".*"

\* re.fullmatch(pattern, string, re.IGNORECASE): the WHOLE string must match.
RECURSIVE fullmatch(_, _)
fullmatch(pattern, string) ==
    IF pattern = <<>> THEN string = <<>>
    ELSE IF Head(pattern) = Star
        THEN \/ fullmatch(Tail(pattern), string)
             \/ string # <<>> /\ fullmatch(pattern, Tail(string))
    ELSE /\ string # <<>>
         /\ Lower(Head(pattern)) = Lower(Head(string))
         /\ fullmatch(Tail(pattern), Tail(string))

\* ------------------------------------------------------------------- items

Titles == {<<"I", "u">>, <<"n">>}
Guids == {<<"g">>, <<"h">>}
Creators == {<<"s", "b">>, <<"a">>}
CategoryLists == {<<>>, <<<<"N">>, <<"N">>>>, <<<<"N", "s">>, <<"N">>>>, <<<<"a">>>>}

\* A FeedItem with the fields the rule evaluator, the deduplicator and the
\* ledger read; the other fields of these items are the same for all.
Item(title, guid, categories, creator) ==
    [title |-> title, guid |-> guid, guid_permalink |-> <<"t">>,
     link |-> <<"h">>, description |-> <<"x">>, pub_date |-> <<"x">>,
     categories |-> categories, creator |-> creator]

Items == {Item(t, g, c, a) : t \in Titles, g \in Guids, c \in CategoryLists, a \in Creators}

\* ------------------------------------------------------------------ ledger

EmptyDict == [k \in {} |-> None]

\* FilterStatistics(): both mappings empty.
FilterStatistics == [passed |-> EmptyDict, blocked |-> EmptyDict]

\* del d[key]
DictDel(d, key) == [k \in DOMAIN d \ {key} |-> d[k]]

\* d[key] = value
DictSet(d, key, value) == [k \in DOMAIN d \cup {key} |-> IF k = key THEN value ELSE d[k]]

\* A faulty add that leaves the opposite mapping alone.
add_keeping_other(st, item, passed) ==
    IF passed
        THEN [st EXCEPT !.passed = DictSet(st.passed, item.title, item)]
        ELSE [st EXCEPT !.blocked = DictSet(st.blocked, item.title, item)]

\* FilterStatistics.add(item, passed): the ledger after the call.
add(st, item, passed) ==
    LET key == item.title
    IN  IF passed
            THEN [passed |-> DictSet(st.passed, key, item),
                  blocked |-> IF key \in DOMAIN st.blocked
                                THEN DictDel(st.blocked, key) ELSE st.blocked]
            ELSE [passed |-> IF key \in DOMAIN st.passed
                               THEN DictDel(st.passed, key) ELSE st.passed,
                  blocked |-> DictSet(st.blocked, key, item)]

\* Counter(iterable).update, one element at a time.
CounterAdd(counter, key) ==
    DictSet(counter, key, IF key \in DOMAIN counter THEN counter[key] + 1 ELSE 1)

RECURSIVE CountSeq(_, _)
CountSeq(counter, keys) ==
    IF keys = <<>> THEN counter
    ELSE CountSeq(CounterAdd(counter, Head(keys)), Tail(keys))

\* Counter(category for item in d.values() for category in item.categories)
RECURSIVE CountCategories(_, _, _)
CountCategories(counter, d, todo) ==
    IF todo = {} THEN counter
    ELSE LET k == CHOOSE k \in todo : TRUE
         IN  CountCategories(CountSeq(counter, d[k].categories), d, todo \ {k})

\* Counter(item.creator for item in d.values())
RECURSIVE CountCreators(_, _, _)
CountCreators(counter, d, todo) ==
    IF todo = {} THEN counter
    ELSE LET k == CHOOSE k \in todo : TRUE
         IN  CountCreators(CounterAdd(counter, d[k].creator), d, todo \ {k})

\* Python's p < q on (count, key) tuples.
PairLess(p, q) == p[1] < q[1] \/ (p[1] = q[1] /\ StrLess(p[2], q[2]))

\* A faulty sort that forgets reverse=True.
RECURSIVE sorted_ascending(_)
sorted_ascending(pairs) ==
    IF pairs = {} THEN <<>>
    ELSE LET m == CHOOSE p \in pairs : \A q \in pairs : q = p \/ PairLess(p, q)
         IN  <<m>> \o sorted_ascending(pairs \ {m})

\* sorted(pairs, reverse=True) of pairwise different tuples.
RECURSIVE sorted_reverse(_)
sorted_reverse(pairs) ==
    IF pairs = {} THEN <<>>
    ELSE LET m == CHOOSE p \in pairs : \A q \in pairs : q = p \/ PairLess(q, p)
         IN  <<m>> \o sorted_reverse(pairs \ {m})

\* ((count, key) for key, count in counter.items())
CounterPairs(counter) == {<<counter[k], k>> : k \in DOMAIN counter}

passed_categories(st) ==
    sorted_reverse(CounterPairs(CountCategories(EmptyDict, st.passed, DOMAIN st.passed)))

blocked_categories(st) ==
    sorted_reverse(CounterPairs(CountCategories(EmptyDict, st.blocked, DOMAIN st.blocked)))

passed_creators(st) ==
    sorted_reverse(CounterPairs(CountCreators(EmptyDict, st.passed, DOMAIN st.passed)))

blocked_creators(st) ==
    sorted_reverse(CounterPairs(CountCreators(EmptyDict, st.blocked, DOMAIN st.blocked)))

\* The history of add calls: for each title the item and the flag of the latest
\* call, and where the title was held before that call.
Held(st, title) ==
    IF title \in DOMAIN st.passed /\ title \in DOMAIN st.blocked THEN "both"
    ELSE IF title \in DOMAIN st.passed THEN "passed"
    ELSE IF title \in DOMAIN st.blocked THEN "blocked"
    ELSE "neither"

Remember(h, st, item, passed) == DictSet(h, item.title, <<item, passed, Held(st, item.title)>>)

\* ------------------------------------------------------ parser, serializer

\* A child element the item element does not have (Element.find gives None).
Missing == <<"Missing">>

Utm == <<"?", "u", "t", "m">>

\* cleanup_link: link.split('?utm')[0], the text before the first `?utm`.
RECURSIVE cleanup_link(_)
cleanup_link(link) ==
    IF link = <<>> \/ IsPrefix(Utm, link) THEN <<>>
    ELSE <<Head(link)>> \o cleanup_link(Tail(link))

\* The .text an element reads back with after ET.tostring and ET.fromstring:
\* ElementTree writes an empty text as an empty element, whose .text is None.
XmlText(text) == IF text = <<>> THEN None ELSE text

\* The isPermaLink attribute dump_feed writes (None: no attribute).
PermaLinkAttr(guid_permalink) ==
    IF guid_permalink # None /\ guid_permalink # <<>> THEN guid_permalink ELSE None

\* The <item> element dump_feed builds for one item, as it reads back.
ItemElement(item) ==
    [title |-> XmlText(item.title),
     guid |-> XmlText(item.guid),
     isPermaLink |-> PermaLinkAttr(item.guid_permalink),
     link |-> XmlText(item.link),
     description |-> XmlText(item.description),
     pubDate |-> XmlText(item.pub_date),
     category |-> [j \in 1..Len(item.categories) |-> XmlText(item.categories[j])],
     creator |-> XmlText(item.creator)]

\* dump_feed(items): the document, as ET.fromstring reads it back.
dump_feed(items) ==
    [wellformed |-> TRUE, items |-> [i \in 1..Len(items) |-> ItemElement(items[i])]]

\* Whether building the FeedItem of an element raises: a mandatory child is not
\* there (None has no .text), the link has no text (None has no .split), or a
\* field declared str (a category: list[str]) would be None, which the pydantic
\* dataclass refuses.
ElementRaises(elt) ==
    \/ Missing \in {elt.title, elt.guid, elt.link, elt.description, elt.pubDate, elt.creator}
    \/ elt.link = None
    \/ None \in {elt.title, elt.guid, elt.isPermaLink, elt.description, elt.pubDate, elt.creator}
    \/ \E j \in 1..Len(elt.category) : elt.category[j] = None

\* The FeedItem parse_feed yields for an element.
ElementItem(elt) ==
    [title |-> elt.title, guid |-> elt.guid, guid_permalink |-> elt.isPermaLink,
     link |-> cleanup_link(elt.link), description |-> elt.description,
     pub_date |-> elt.pubDate, categories |-> elt.category, creator |-> elt.creator]

\* A generator's run: the items it yields, and whether it ends by raising.
Stream(items, raised) == [items |-> items, raised |-> raised]

RECURSIVE ParseElements(_)
ParseElements(elts) ==
    IF elts = <<>> THEN Stream(<<>>, FALSE)
    ELSE IF ElementRaises(Head(elts)) THEN Stream(<<>>, TRUE)
    ELSE LET rest == ParseElements(Tail(elts))
         IN  Stream(<<ElementItem(Head(elts))>> \o rest.items, rest.raised)

\* parse_feed(content): ET.fromstring raises ParseError on a document that is
\* not well-formed, before any item; then one item per channel/item element.
parse_feed(content) ==
    IF ~content.wellformed THEN Stream(<<>>, TRUE) ELSE ParseElements(content.items)

\* A well-formed document with the given channel/item elements.
Document(elts) == [wellformed |-> TRUE, items |-> elts]

\* A document that is not well-formed.
NotXml == [wellformed |-> FALSE, items |-> <<>>]

\* itertools.chain(*map(parse_feed, contents)): the generators run one after the
\* other, each only when the one before is exhausted.
RECURSIVE chain(_)
chain(docs) ==
    IF docs = <<>> THEN Stream(<<>>, FALSE)
    ELSE LET first == parse_feed(Head(docs))
         IN  IF first.raised THEN first
             ELSE LET rest == chain(Tail(docs))
                  IN  Stream(first.items \o rest.items, rest.raised)

\* ------------------------------------------------------------ deduplicator

\* A faulty pass that never remembers a guid.
RECURSIVE unicalize_forgetful(_, _)
unicalize_forgetful(items, seen_guids) ==
    IF items = <<>> THEN <<>>
    ELSE IF Head(items).guid \notin seen_guids
        THEN <<Head(items)>> \o unicalize_forgetful(Tail(items), seen_guids)
    ELSE unicalize_forgetful(Tail(items), seen_guids)

\* FeedItem.unicalize: the loop, with the seen_guids set so far.
RECURSIVE unicalize(_, _)
unicalize(items, seen_guids) ==
    IF items = <<>> THEN <<>>
    ELSE IF Head(items).guid \notin seen_guids
        THEN <<Head(items)>> \o unicalize(Tail(items), seen_guids \cup {Head(items).guid})
    ELSE unicalize(Tail(items), seen_guids)

\* ---------------------------------------------------------- rule evaluator

FilterConfig(title, category, creator) ==
    [title |-> title, category |-> category, creator |-> creator]

\* One pass of the loop body of check_filters.
FilterHits(filt, item) ==
    \/ filt.title # None /\ fullmatch(filt.title, item.title)
    \/ /\ filt.category # None
       /\ \E j \in 1..Len(item.categories) : fullmatch(filt.category, item.categories[j])
    \/ filt.creator # None /\ fullmatch(filt.creator, item.creator)

\* A faulty loop that gives up after the first filter.
check_filters_first_only(item, filters) ==
    filters # <<>> /\ FilterHits(Head(filters), item)

\* check_filters(item, filters)
RECURSIVE check_filters(_, _)
check_filters(item, filters) ==
    IF filters = <<>> THEN FALSE
    ELSE IF FilterHits(Head(filters), item) THEN TRUE
    ELSE check_filters(item, Tail(filters))

\* ---------------------------------------------------------------- pipeline

\* The run of process_feed_items so far: the ledger, the items yielded, the add
\* calls made.
Progress(st, yielded, calls) == [stats |-> st, yielded |-> yielded, calls |-> calls]

\* A faulty loop that records only what it yields.
RECURSIVE process_recording_passed(_, _, _)
process_recording_passed(items, config, acc) ==
    IF items = <<>> THEN acc
    ELSE LET item == Head(items)
         IN  IF check_filters(item, config.exclude) /\ ~check_filters(item, config.include)
                 THEN process_recording_passed(Tail(items), config, acc)
                 ELSE process_recording_passed(Tail(items), config,
                          Progress(add(acc.stats, item, TRUE),
                                   Append(acc.yielded, item),
                                   Append(acc.calls, <<item, TRUE>>)))

\* A faulty loop that yields the blocked items too.
RECURSIVE process_yielding_all(_, _, _)
process_yielding_all(items, config, acc) ==
    IF items = <<>> THEN acc
    ELSE LET item == Head(items)
             passed == ~(check_filters(item, config.exclude) /\ ~check_filters(item, config.include))
         IN  process_yielding_all(Tail(items), config,
                 Progress(add(acc.stats, item, passed),
                          Append(acc.yielded, item),
                          Append(acc.calls, <<item, passed>>)))

\* The loop of process_feed_items over the deduplicated items.
RECURSIVE process_loop(_, _, _)
process_loop(items, config, acc) ==
    IF items = <<>> THEN acc
    ELSE LET item == Head(items)
         IN  IF check_filters(item, config.exclude) /\ ~check_filters(item, config.include)
                 THEN process_loop(Tail(items), config,
                          Progress(add(acc.stats, item, FALSE),
                                   acc.yielded,
                                   Append(acc.calls, <<item, FALSE>>)))
                 ELSE process_loop(Tail(items), config,
                          Progress(add(acc.stats, item, TRUE),
                                   Append(acc.yielded, item),
                                   Append(acc.calls, <<item, TRUE>>)))

\* dump_feed(process_feed_items(chain(...), feed_config, stats)), lines 349-355:
\* the generators are drained item by item, so every item parsed before a
\* document raises has gone through the loop, ledger included.
Pipeline(docs, config, st) ==
    LET stream == chain(docs)
        unique == unicalize(stream.items, {})
        done == process_loop(unique, config, Progress(st, <<>>, <<>>))
    IN  [ran |-> TRUE,
         ok |-> ~stream.raised,
         input |-> stream.items,
         unique |-> unique,
         stats |-> done.stats,
         yielded |-> done.yielded,
         calls |-> done.calls,
         response |-> IF stream.raised THEN [status |-> 500]
                      ELSE [status |-> 200, body |-> dump_feed(done.yielded)]]

\* The history after the add calls of a run.
RECURSIVE RememberAll(_, _, _)
RememberAll(h, st, calls) ==
    IF calls = <<>> THEN h
    ELSE RememberAll(Remember(h, st, Head(calls)[1], Head(calls)[2]),
                     add(st, Head(calls)[1], Head(calls)[2]), Tail(calls))

\* -------------------------------------------------------- configurations

Feeds ==
    { [name |-> "tech", urls |-> <<"u1", "u2">>,
       exclude |-> <<FilterConfig(None, None, <<"s", Star>>)>>,
       include |-> <<FilterConfig(<<"i", Star>>, None, None)>>],
      [name |-> "all", urls |-> <<"u1">>,
       exclude |-> <<>>,
       include |-> <<>>],
      [name |-> "strict", urls |-> <<"u1", "u2">>,
       exclude |-> <<FilterConfig(None, None, <<"s">>), FilterConfig(<<"N">>, <<"n">>, None)>>,
       include |-> <<FilterConfig(None, None, <<"b">>), FilterConfig(None, <<"n", "s">>, None)>>],
      [name |-> "none", urls |-> <<"u1">>,
       exclude |-> <<FilterConfig(<<Star>>, None, None)>>,
       include |-> <<>>] }

\* --------------------------------------------------- states of no concern

\* No pipeline run yet, no round trip yet, no statistics rendered yet.
NotRun == [ran |-> FALSE]

NotParsed == [done |-> FALSE]

NotObserved == [taken |-> FALSE]

\* ------------------------------------------- the ledger under add calls alone

InitLedger ==
    /\ stats = FilterStatistics
    /\ last = EmptyDict
    /\ feed_config = None
    /\ contents = <<>>
    /\ run = NotRun
    /\ entries = <<>>
    /\ parsed = NotParsed
    /\ handlers = <<>>
    /\ observed = NotObserved

Add ==
    \E item \in Items, passed \in BOOLEAN :
        /\ stats' = add(stats, item, passed)
        /\ last' = Remember(last, stats, item, passed)
        /\ UNCHANGED <<feed_config, contents, run, entries, parsed, handlers, observed>>

NextLedger == Add

SpecLedger == InitLedger /\ [][NextLedger]_vars

\* C1: after any sequence of add calls from an empty ledger no title is a key of
\* both mappings, and every title recorded so far is held by the mapping the
\* latest add call for it named, with the item of that call stored under it.
C1_LedgerExclusive ==
    /\ DOMAIN stats.passed \cap DOMAIN stats.blocked = {}
    /\ DOMAIN stats.passed \cup DOMAIN stats.blocked = DOMAIN last
    /\ \A t \in DOMAIN last :
          IF last[t][2]
              THEN t \in DOMAIN stats.passed /\ stats.passed[t] = last[t][1]
              ELSE t \in DOMAIN stats.blocked /\ stats.blocked[t] = last[t][1]

\* A title moved from blocked to passed by its latest add call, another one moved
\* the other way.
C1_Witness ==
    \E t, u \in DOMAIN last :
        /\ last[t][2] /\ last[t][3] = "blocked"
        /\ ~last[u][2] /\ last[u][3] = "passed"

\* The positions <<title, index>> of the category lists of a mapping's entries.
Positions(d) == UNION {{<<t, j>> : j \in 1..Len(d[t].categories)} : t \in DOMAIN d}

\* The labels occurring in the entries a mapping holds.
LabelsOf(d) == {d[p[1]].categories[p[2]] : p \in Positions(d)}

\* The occurrences of a label over the category lists of a mapping's entries.
Occurrences(d, label) ==
    Cardinality({p \in Positions(d) : d[p[1]].categories[p[2]] = label})

CategoryViewRight(view, d) ==
    /\ {view[i][2] : i \in 1..Len(view)} = LabelsOf(d)
    /\ Len(view) = Cardinality(LabelsOf(d))
    /\ \A i \in 1..Len(view) : view[i][1] = Occurrences(d, view[i][2])
    /\ \A i \in 1..(Len(view) - 1) : PairLess(view[i + 1], view[i])

\* C6: in every ledger state passed_categories (blocked_categories) lists one
\* (count, label) pair per label occurring in an entry the mapping holds now, the
\* count is the number of occurrences of the label over those entries' category
\* lists, and the pairs descend by (count, label).
C6_CategoryCounts ==
    /\ CategoryViewRight(passed_categories(stats), stats.passed)
    /\ CategoryViewRight(blocked_categories(stats), stats.blocked)

\* A passed entry listing a label twice gives it the count two; a title that was
\* passed before is blocked now and counts on the blocked side only, where two
\* labels of equal count are ordered by label.
C6_Witness ==
    /\ passed_categories(stats) = << <<2, <<"N">>>> >>
    /\ blocked_categories(stats) = << <<1, <<"N", "s">>>>, <<1, <<"N">>>> >>
    /\ \E t \in DOMAIN last : ~last[t][2] /\ last[t][3] = "passed"

\* ------------------------------------------- one run of the pipeline

\* The items of the documents of a run: a spam creator with two categories, or
\* another creator with one category twice or without any.
PipelineItems ==
    {i \in Items :
        IF i.creator = <<"s", "b">> THEN i.categories = <<<<"N", "s">>, <<"N">>>>
        ELSE i.categories \in {<<>>, <<<<"N">>, <<"N">>>>}}

\* An <item> element without a <title> child.
TitlelessElement == [ItemElement(CHOOSE i \in PipelineItems : TRUE) EXCEPT !.title = Missing]

Elements == {ItemElement(i) : i \in PipelineItems} \cup {TitlelessElement}

\* The documents fetched for the URLs of a feed (one or two): the elements
\* dealt to them in order, the first `cut` of them to the first document, and
\* the documents in `broken` not well-formed.
Deal(urls, elts, cut, broken) ==
    [u \in 1..urls |->
        IF u \in broken THEN NotXml
        ELSE IF u = 1 THEN Document(SubSeq(elts, 1, cut))
        ELSE Document(SubSeq(elts, cut + 1, Len(elts)))]

\* Every element is dealt to a well-formed document.
Dealt(urls, elts, cut, broken) ==
    /\ broken \subseteq 1..urls
    /\ urls = 1 => cut = Len(elts)
    /\ 1 \in broken => cut = 0
    /\ 2 \in broken => cut = Len(elts)

InitPipeline ==
    /\ stats = FilterStatistics
    /\ last = EmptyDict
    /\ feed_config \in Feeds
    /\ \E n \in 0..MaxElts :
        \E elts \in [1..n -> Elements], cut \in 0..n, broken \in SUBSET (1..2) :
            /\ Dealt(Len(feed_config.urls), elts, cut, broken)
            /\ contents = Deal(Len(feed_config.urls), elts, cut, broken)
    /\ run = NotRun
    /\ entries = <<>>
    /\ parsed = NotParsed
    /\ handlers = <<>>
    /\ observed = NotObserved

RunPipeline ==
    /\ ~run.ran
    /\ run' = Pipeline(contents, feed_config, stats)
    /\ stats' = run'.stats
    /\ last' = RememberAll(last, stats, run'.calls)
    /\ UNCHANGED <<feed_config, contents, entries, parsed, handlers, observed>>

NextPipeline == RunPipeline

SpecPipeline == InitPipeline /\ [][NextPipeline]_vars

\* ------------------------------------------- claims on one run of the pipeline

\* A rule matches an entry if one of its given patterns matches the whole of the
\* entry's title, of one of its categories or of its creator, ignoring case.
RuleMatches(rule, item) ==
    \/ rule.title # None /\ fullmatch(rule.title, item.title)
    \/ rule.category # None /\ \E c \in {item.categories[j] : j \in 1..Len(item.categories)} :
                                  fullmatch(rule.category, c)
    \/ rule.creator # None /\ fullmatch(rule.creator, item.creator)

SomeRuleMatches(rules, item) == \E k \in 1..Len(rules) : RuleMatches(rules[k], item)

ShouldBlock(config, item) ==
    SomeRuleMatches(config.exclude, item) /\ ~SomeRuleMatches(config.include, item)

\* C2: the pipeline classifies an entry as blocked iff some exclude rule matches
\* it and no include rule matches it.
C2_RuleOverride ==
    run.ran =>
        \A k \in 1..Len(run.calls) :
            run.calls[k][2] = ~ShouldBlock(feed_config, run.calls[k][1])

\* One run classified an entry matching an exclude and an include rule (passed),
\* and one matching an exclude rule only (blocked), where the matching rules are
\* not the first of their lists.
C2_Witness ==
    /\ run.ran
    /\ \E k, m \in 1..Len(run.calls) :
        /\ SomeRuleMatches(feed_config.exclude, run.calls[k][1])
        /\ SomeRuleMatches(feed_config.include, run.calls[k][1])
        /\ ~RuleMatches(feed_config.include[1], run.calls[k][1])
        /\ run.calls[k][2]
        /\ SomeRuleMatches(feed_config.exclude, run.calls[m][1])
        /\ ~RuleMatches(feed_config.exclude[1], run.calls[m][1])
        /\ ~run.calls[m][2]

\* The indices of the first entry of each guid.
FirstIndices(items) ==
    {i \in 1..Len(items) : \A j \in 1..(i - 1) : items[j].guid # items[i].guid}

\* The entries at the given indices, in their order.
Pick(items, indices) ==
    [k \in 1..Cardinality(indices) |->
        items[CHOOSE i \in indices : Cardinality({j \in indices : j < i}) = k - 1]]

\* C3: unicalize outputs one entry per distinct guid of its input, the first one
\* carrying that guid, in input order.
C3_Deduplication ==
    run.ran =>
        /\ run.unique = Pick(run.input, FirstIndices(run.input))
        /\ Len(run.unique) = Cardinality({run.input[i].guid : i \in 1..Len(run.input)})

\* The input of two documents repeats a guid across them under another title,
\* and has another guid after the repetition.
C3_Witness ==
    /\ run.ran /\ run.ok
    /\ Len(contents) = 2
    /\ Len(run.input) = 3 /\ Len(run.unique) = 2
    /\ Len(contents[1].items) = 1
    /\ run.input[2].guid = run.input[1].guid
    /\ run.input[2].title # run.input[1].title
    /\ run.unique[2] = run.input[3]

\* C4: in a completed run add is called exactly once per entry that survives the
\* deduplication, passed or blocked, in their order, and for no other entry.
C4_AddOncePerSurvivor ==
    (run.ran /\ run.ok) =>
        /\ Len(run.calls) = Len(run.unique)
        /\ \A k \in 1..Len(run.calls) : run.calls[k][1] = run.unique[k]

\* A completed run dropped a duplicate and recorded a passed and a blocked entry.
C4_Witness ==
    /\ run.ran /\ run.ok
    /\ Len(run.input) > Len(run.unique)
    /\ \E k, m \in 1..Len(run.calls) : run.calls[k][2] /\ ~run.calls[m][2]

\* The indices of the entries that are to pass.
PassIndices(config, items) == {i \in 1..Len(items) : ~ShouldBlock(config, items[i])}

\* C5: the output of process_feed_items is the subsequence of the deduplicated
\* input made of the entries classified as passed, in the same order.
C5_OutputIsPassedSubsequence ==
    (run.ran /\ run.ok) =>
        /\ run.yielded = Pick(run.unique, PassIndices(feed_config, run.unique))
        /\ run.response.body = dump_feed(run.yielded)

\* A completed run of two documents dropped a duplicate, blocked the first of
\* its deduplicated entries and yielded the second.
C5_Witness ==
    /\ run.ran /\ run.ok
    /\ Len(contents) = 2
    /\ Len(run.input) = 3 /\ Len(run.unique) = 2
    /\ ~run.calls[1][2]
    /\ run.yielded = <<run.unique[2]>>

\* C10 as claimed: a feed request that fails on a document leaves the ledger as
\* it was before the request.
C10_FailedRequestLeavesLedger ==
    (run.ran /\ ~run.ok) => stats = FilterStatistics

\* ------------------------------------------- serialize, then parse

Links == {<<"h">>, <<"h", "?", "x", "=">>, <<>>, <<"h", "?", "u", "t", "m", "=">>}

\* FeedItems whose fields are strings (a list of strings), the empty string among
\* them.
Entries ==
    {[title |-> t, guid |-> <<"g">>, guid_permalink |-> p, link |-> l,
      description |-> <<"x">>, pub_date |-> <<"x">>, categories |-> c, creator |-> <<"a">>] :
        t \in {<<"n">>, <<>>}, p \in {<<"t">>, <<>>}, l \in Links,
        c \in {<<>>, <<<<"N">>, <<"a">>>>, <<<<>>>>}}

InitRoundTrip ==
    /\ stats = FilterStatistics
    /\ last = EmptyDict
    /\ feed_config = None
    /\ contents = <<>>
    /\ run = NotRun
    /\ entries \in UNION {[1..n -> Entries] : n \in 0..MaxEntries}
    /\ parsed = NotParsed
    /\ handlers = <<>>
    /\ observed = NotObserved

\* parse_feed(dump_feed(entries))
RoundTrip ==
    /\ ~parsed.done
    /\ parsed' = [done |-> TRUE, stream |-> parse_feed(dump_feed(entries))]
    /\ UNCHANGED <<stats, last, feed_config, contents, run, entries, handlers, observed>>

NextRoundTrip == RoundTrip

SpecRoundTrip == InitRoundTrip /\ [][NextRoundTrip]_vars

\* ------------------------------------------- claims on the round trip

\* Whether a string contains the `?utm` marker.
RECURSIVE HasUtm(_)
HasUtm(link) == link # <<>> /\ (IsPrefix(Utm, link) \/ HasUtm(Tail(link)))

\* C9 as claimed: for entries whose links hold no `?utm` marker,
\* parse_feed(dump_feed(entries)) yields the same entries, field for field.
C9_RoundTrip ==
    (parsed.done /\ \A i \in 1..Len(entries) : ~HasUtm(entries[i].link)) =>
        /\ ~parsed.stream.raised
        /\ parsed.stream.items = entries

\* ------------------------------------------------- the request handlers

\* The feeds the server is configured with (Handler._config.feeds).
ServerFeeds == {f \in Feeds : f.name \in {"tech", "all"}}

\* The names a request may carry: those of the feeds, and one of no feed.
Names == {f.name : f \in ServerFeeds} \cup {"nope"}

\* The request slots: a slot serves one request after the other.
Slots == {1, 2}

\* What the sources serve: nothing that parses, a well-formed document without
\* items, or a feed with one item by a spam creator.
ServerDocuments ==
    {NotXml,
     Document(<<>>),
     Document(<<ItemElement(Item(<<"n">>, <<"g">>, <<>>, <<"s", "b">>))>>)}

\* What session.get gives for one URL: a response with its status, whatever the
\* status is, or an exception (the connection fails, or the session's timeout
\* expires).
Fetches == {[raised |-> FALSE, status |-> 200],
            [raised |-> FALSE, status |-> 404],
            [raised |-> TRUE, status |-> 0]}

\* No request in the slot yet.
Idle == [pc |-> "idle"]

\* A request handler that is through, with the response it gave (500: the
\* exception it raised, which aiohttp answers with Internal Server Error).
Done(feed, fetches, response) ==
    [pc |-> "done", feed |-> feed, fetches |-> fetches, response |-> response]

\* handle_feed up to `await asyncio.gather(*tasks)`: HTTPNotFound for a name of
\* no feed, else one session.get per URL of the feed, each with the request's
\* user-agent header (a KeyError if the request has none).
HandleFeed(slot) ==
    /\ handlers[slot].pc \in {"idle", "done"}
    /\ \E name \in Names, user_agent \in BOOLEAN :
        IF ~\E f \in ServerFeeds : f.name = name
            THEN handlers' = [handlers EXCEPT ![slot] =
                    Done([name |-> name], <<>>, [status |-> 404])]
        ELSE IF ~user_agent
            THEN handlers' = [handlers EXCEPT ![slot] =
                    Done(CHOOSE f \in ServerFeeds : f.name = name, <<>>, [status |-> 500])]
        ELSE handlers' = [handlers EXCEPT ![slot] =
                    [pc |-> "gather", feed |-> CHOOSE f \in ServerFeeds : f.name = name]]
    /\ UNCHANGED <<stats, last, feed_config, contents, run, entries, parsed, observed>>

\* asyncio.gather returns or raises: it raises what the first failing session.get
\* raised; a response of any status is a result.  Then content_type is taken
\* from the first response (a KeyError if it has no such header) and the first
\* response.text() is awaited.
Gathered(slot) ==
    /\ handlers[slot].pc = "gather"
    /\ \E fetches \in [1..Len(handlers[slot].feed.urls) -> Fetches], content_type \in BOOLEAN :
        IF (\E k \in 1..Len(fetches) : fetches[k].raised) \/ ~content_type
            THEN handlers' = [handlers EXCEPT ![slot] =
                    Done(handlers[slot].feed, fetches, [status |-> 500])]
            ELSE handlers' = [handlers EXCEPT ![slot] =
                    [pc |-> "text", feed |-> handlers[slot].feed, fetches |-> fetches,
                     texts |-> <<>>]]
    /\ UNCHANGED <<stats, last, feed_config, contents, run, entries, parsed, observed>>

\* One `await response.text()` returns; after the last one the handler runs on,
\* without another await, through parse_feed, process_feed_items and dump_feed to
\* its response (or to the exception a document raises).
Text(slot) ==
    /\ handlers[slot].pc = "text"
    /\ \E body \in ServerDocuments :
        LET h == handlers[slot]
            texts == Append(h.texts, body)
        IN  IF Len(texts) < Len(h.fetches)
                THEN /\ handlers' = [handlers EXCEPT ![slot].texts = texts]
                     /\ UNCHANGED <<stats, last>>
                ELSE LET done == Pipeline(texts, h.feed, stats)
                     IN  /\ handlers' = [handlers EXCEPT ![slot] =
                                Done(h.feed, h.fetches, done.response)]
                         /\ stats' = done.stats
                         /\ last' = RememberAll(last, stats, done.calls)
    /\ UNCHANGED <<feed_config, contents, run, entries, parsed, observed>>

\* One `await response.text()` raises (the connection breaks while the body is
\* read): the handler ends with that exception.
TextRaises(slot) ==
    /\ handlers[slot].pc = "text"
    /\ handlers' = [handlers EXCEPT ![slot] =
            Done(handlers[slot].feed, handlers[slot].fetches, [status |-> 500])]
    /\ UNCHANGED <<stats, last, feed_config, contents, run, entries, parsed, observed>>

\* handle_stats: the template is rendered over the ledger without an await.
HandleStats ==
    /\ observed' = [taken |-> TRUE,
                    passed |-> DOMAIN stats.passed,
                    blocked |-> DOMAIN stats.blocked,
                    recorded |-> DOMAIN last,
                    in_flight |-> {s \in Slots : handlers[s].pc \in {"gather", "text"}}]
    /\ UNCHANGED <<stats, last, feed_config, contents, run, entries, parsed, handlers>>

InitServer ==
    /\ stats = FilterStatistics
    /\ last = EmptyDict
    /\ feed_config = None
    /\ contents = <<>>
    /\ run = NotRun
    /\ entries = <<>>
    /\ parsed = NotParsed
    /\ handlers = [s \in Slots |-> Idle]
    /\ observed = NotObserved

NextServer ==
    \/ \E slot \in Slots : HandleFeed(slot)
    \/ \E slot \in Slots : Gathered(slot)
    \/ \E slot \in Slots : Text(slot)
    \/ \E slot \in Slots : TextRaises(slot)
    \/ HandleStats

SpecServer == InitServer /\ [][NextServer]_vars

\* ------------------------------------------- claims on the request handlers

\* C7: no rendering of the statistics sees a recorded title in both mappings or
\* in neither, whatever the feed requests in flight are waiting for.
C7_NoTornLedger ==
    observed.taken =>
        \A t \in observed.recorded : (t \in observed.passed) # (t \in observed.blocked)

\* The statistics were rendered while a feed request was between two awaits, and
\* showed a title as passed that an earlier request had blocked.
C7_Witness ==
    /\ observed.taken
    /\ observed.in_flight # {}
    /\ \E t \in observed.recorded \cap DOMAIN last :
        t \in observed.passed /\ last[t][2] /\ last[t][3] = "blocked"
    /\ \E s \in Slots : handlers[s].pc = "text" /\ Len(handlers[s].texts) = 1

\* Whether the fetch of some source of a finished request failed.
FetchFailed(h) ==
    \E k \in 1..Len(h.fetches) : h.fetches[k].raised \/ h.fetches[k].status \notin 200..299

\* C8 as claimed: a feed request one of whose fetches failed (an exception, or a
\* status that is not 2xx) does not end in a successful response.
C8_FetchFailureFailsRequest ==
    \A s \in Slots :
        (handlers[s].pc = "done" /\ FetchFailed(handlers[s])) => handlers[s].response.status # 200

====
